---- MODULE Spec2Model ----
(***************************************************************************)
(* Model of src/stock.py: the StockAnalysisApp Streamlit script.           *)
(*                                                                         *)
(* One script run is: StockAnalysisApp() (AppInit), display_dashboard      *)
(* (DisplayDashboard), and, when "Analyze Stock" was pressed,              *)
(* fetch_stock_data (CallHistory, CallInfo, CallRecommendations, CallNews),*)
(* the dispatch on the analysis type (Dispatch) and, for "AI Decision      *)
(* Support", generate_gemini_analysis (CallGemini) and the formatting of   *)
(* its result (RenderVerdict).  Every blocking call of an external         *)
(* provider is one step; its outcome (a value or an exception) is chosen   *)
(* nondeterministically.  st.session_state survives a rerun (EndRun).      *)
(***************************************************************************)
EXTENDS Integers, Sequences, FiniteSets, TLC

VARIABLES
    ticker,           \* st.session_state.ticker, NoTicker while not stored
    pc,               \* position of the script run
    analysis_type,    \* value of the sidebar radio
    clicked,          \* value of the "Analyze Stock" button
    fetch_ticker,     \* argument of fetch_stock_data
    info,             \* local info of fetch_stock_data
    recommendations,  \* local recommendations of fetch_stock_data
    stock_data,       \* value returned by fetch_stock_data
    errors,           \* st.error messages of fetch_stock_data, in order
    rendered,         \* dashboard sections rendered in this run, in order
    calls,            \* calls of the external providers in this run, in order
    ai_analysis,      \* value returned by generate_gemini_analysis
    verdict           \* what display_ai_decision_support shows for it

vars == <<ticker, pc, analysis_type, clicked, fetch_ticker, info,
          recommendations, stock_data, errors, rendered, calls,
          ai_analysis, verdict>>

(***************************************************************************)
(* Bounds of the model.                                                    *)
(***************************************************************************)
MaxRows == 8      \* most analyst rows the provider returns
MaxAbsent == 2    \* most fields missing from a non-empty info payload
MaxLen == 5       \* longest generated text explored by SpecVerdict

(***************************************************************************)
(* Values.                                                                 *)
(***************************************************************************)
NoTicker == "<unset>"
DefaultTicker == "NVDA"
Tickers == {"NVDA", "AAPL"}
AnalysisTypes == {"Overview", "Price Charts", "AI Decision Support"}
NA == "N/A"
NoSnapshot == [isNone |-> TRUE]      \* Python None returned by fetch_stock_data

\* A number of the info payload that is later scaled by 100 and printed with
\* two decimals is kept in units of 1/10000 (123 stands for 0.0123).
PyNone == [isNone |-> TRUE, num |-> 0]
Num(n) == [isNone |-> FALSE, num |-> n]

Fields == {"longName", "sector", "industry", "marketCap", "currentPrice",
           "fiftyTwoWeekHigh", "fiftyTwoWeekLow", "trailingPE",
           "dividendYield", "returnOnEquity"}

DivValues == {PyNone, Num(0), Num(123)}
RoeValues == {Num(1500), Num(-250), Num(0)}
MarketCaps == {123456789}

FullInfo(dy, roe, mc) ==
    [longName |-> "NVIDIA Corporation", sector |-> "Technology",
     industry |-> "Semiconductors", marketCap |-> mc,
     currentPrice |-> "450.1", fiftyTwoWeekHigh |-> "500.0",
     fiftyTwoWeekLow |-> "300.0", trailingPE |-> "60.5",
     dividendYield |-> dy, returnOnEquity |-> roe]

Restrict(f, S) == [k \in S |-> f[k]]

EmptyInfo == Restrict(FullInfo(PyNone, PyNone, 0), {})

\* The non-empty payloads stock.info may return.
InfoPayloads ==
    { Restrict(FullInfo(dy, roe, mc), Fields \ A) :
        dy \in DivValues, roe \in {Num(1500)}, mc \in MarketCaps,
        A \in {B \in SUBSET Fields : Cardinality(B) <= MaxAbsent} }
    \cup
    { FullInfo(Num(123), roe, mc) : roe \in RoeValues, mc \in MarketCaps }

\* The analyst rows stock.recommendations may return: n rows in chronological
\* order, row i dated i.
Rows(n) == [i \in 1..n |-> [date |-> i, grade |-> IF i % 2 = 0 THEN "Buy" ELSE "Hold"]]
RecommendationFrames == { Rows(n) : n \in 0..MaxRows }
EmptyFrame == << >>

NewsItem(k) == [title |-> "headline" \o ToString(k), source |-> "wire", url |-> "#"]
NewsResults == { << >>, <<NewsItem(1)>>, <<NewsItem(1), NewsItem(2), NewsItem(3), NewsItem(4)>> }


(***************************************************************************)
(* Pure helpers of fetch_stock_data.                                       *)
(***************************************************************************)
TailCount == 5    \* recommendations.tail(5)
NewsShown == 3    \* news[:3]

\* dict.get(key, default)
Get(d, k, default) == IF k \in DOMAIN d THEN d[k] ELSE default

\* dict.get(key): None when the key is missing
GetOrNone(d, k) == Get(d, k, PyNone)

\* Python truth value of a number or None
Truthy(v) == ~v.isNone /\ v.num # 0

Digit == <<"0", "1", "2", "3", "4", "5", "6", "7", "8", "9">>

RECURSIVE Dec(_)
Dec(n) == IF n < 10 THEN Digit[n + 1] ELSE Dec(n \div 10) \o Digit[(n % 10) + 1]

Pad2(n) == Digit[(n \div 10) + 1] \o Digit[(n % 10) + 1]
Pad3(n) == Digit[(n \div 100) + 1] \o Pad2(n % 100)

\* format(n, ",") of a non-negative integer
RECURSIVE Thousands(_)
Thousands(n) ==
    IF n < 1000 THEN Dec(n) ELSE Thousands(n \div 1000) \o "," \o Pad3(n % 1000)

\* f"${info.get('marketCap', 'N/A'):,}" raises ValueError for the str default
MarketCapRaises(d) == "marketCap" \notin DOMAIN d
FormatMarketCap(d) == "$" \o Thousands(d["marketCap"])

Abs(n) == IF n < 0 THEN -n ELSE n

\* f"{v*100:.2f}%" for v = num/10000
FormatPercent(v) ==
    (IF v.num < 0 THEN "-" ELSE "") \o Dec(Abs(v.num) \div 100) \o "."
        \o Pad2(Abs(v.num) % 100) \o "%"

\* f"{info.get(k, 'N/A')*100:.2f}%" if info.get(k) else 'N/A'
PercentOrNA(d, k) == IF Truthy(GetOrNone(d, k)) THEN FormatPercent(d[k]) ELSE NA

Min(a, b) == IF a <= b THEN a ELSE b

\* DataFrame.head(n), were it used where tail is
HeadRows(frame, n) == SubSeq(frame, 1, Min(Len(frame), n))

\* DataFrame.tail(n)
TailRows(frame, n) ==
    SubSeq(frame, Len(frame) - Min(Len(frame), n) + 1, Len(frame))

\* recommendations.tail(5) if not recommendations.empty else pd.DataFrame()
SnapshotRecommendations(frame) ==
    IF Len(frame) # 0 THEN TailRows(frame, TailCount) ELSE EmptyFrame

\* the dict returned by fetch_stock_data
Snapshot(d, frame, news) ==
    [BasicInfo |->
        [CompanyName |-> Get(d, "longName", NA),
         Sector      |-> Get(d, "sector", NA),
         Industry    |-> Get(d, "industry", NA),
         MarketCap   |-> FormatMarketCap(d)],
     CurrentPrice |->
        [Current |-> Get(d, "currentPrice", NA),
         High52  |-> Get(d, "fiftyTwoWeekHigh", NA),
         Low52   |-> Get(d, "fiftyTwoWeekLow", NA)],
     FinancialHealth |->
        [PE            |-> Get(d, "trailingPE", NA),
         DividendYield |-> PercentOrNA(d, "dividendYield"),
         ROE           |-> PercentOrNA(d, "returnOnEquity")],
     Recommendations |-> SnapshotRecommendations(frame),
     HistoricalData  |-> "history 1y",
     News            |-> news]

\* f"{info.get('longName', ticker)} stock news"
NewsQuery(d, t) == Get(d, "longName", t) \o " stock news"

(***************************************************************************)
(* Text of the generative model, as a sequence of characters.              *)
(***************************************************************************)
FailureMarker == "X"      \* stands for the cross mark U+274C
Newline == "\n"
Whitespace == {" ", "\t", "\r", Newline}
Alphabet == {"B", "-", " ", Newline, FailureMarker}

\* "❌ Gemini Analysis Error: "
ErrorPrefix == <<FailureMarker, " ", "G", "e", "m", "i", "n", "i", " ",
                 "A", "n", "a", "l", "y", "s", "i", "s", " ",
                 "E", "r", "r", "o", "r", ":", " ">>

\* c in text
Contains(text, c) == \E i \in 1..Len(text) : text[i] = c

\* text.split("\n")
RECURSIVE Split(_)
Split(text) ==
    IF ~Contains(text, Newline) THEN <<text>>
    ELSE LET i == CHOOSE j \in 1..Len(text) :
                     text[j] = Newline /\ \A k \in 1..(j - 1) : text[k] # Newline
         IN  <<SubSeq(text, 1, i - 1)>> \o Split(SubSeq(text, i + 1, Len(text)))

RECURSIVE LStrip(_)
LStrip(line) ==
    IF line # << >> /\ Head(line) \in Whitespace THEN LStrip(Tail(line)) ELSE line

RECURSIVE RStrip(_)
RStrip(line) ==
    IF line # << >> /\ line[Len(line)] \in Whitespace
    THEN RStrip(SubSeq(line, 1, Len(line) - 1)) ELSE line

\* line.lstrip(), were it used where strip is
StripLeft(line) == LStrip(line)

\* line.strip()
Strip(line) == LStrip(RStrip(line))

\* f"- {line.strip()}"
Bullet(line) == <<"-", " ">> \o Strip(line)

\* for line in lines[1:]: if line.strip(): st.write(f"- {line.strip()}")
RECURSIVE Reasons(_)
Reasons(lines) ==
    IF lines = << >> THEN << >>
    ELSE (IF Strip(Head(lines)) # << >> THEN <<Bullet(Head(lines))>> ELSE << >>)
         \o Reasons(Tail(lines))

NoVerdict == [kind |-> "none", headline |-> << >>, reasons |-> << >>, error |-> << >>]

\* text.startswith("❌"), were it used where the containment test is
StartsWithMarker(text) == text # << >> /\ text[1] = FailureMarker

\* "❌" in ai_analysis
HasMarker(text) == Contains(text, FailureMarker)

\* the formatting at the end of display_ai_decision_support
FormatAnalysis(text) ==
    IF ~HasMarker(text)
    THEN [kind |-> "recommendation", headline |-> Split(text)[1],
          reasons |-> Reasons(Tail(Split(text))), error |-> << >>]
    ELSE [kind |-> "error", headline |-> << >>, reasons |-> << >>, error |-> text]

\* Texts the provider may answer with, and messages its exceptions may carry.
GeminiResponses ==
    { <<"B">>,
      <<"B", Newline, "-", " ", "B">>,
      <<"B", Newline, Newline, " ", "-", " ", Newline, "B">>,
      << >>,
      <<"B", Newline, FailureMarker>> }
ExceptionTexts == { << >>, <<"B">>, <<"B", Newline, "B">> }

\* [article.get('title', ...) for article in news[:3]]
TopTitles(news, default) ==
    [i \in 1..Min(Len(news), NewsShown) |-> Get(news[i], "title", default)]

\* the values generate_gemini_analysis puts into its prompt
Prompt(sd, news) ==
    [name |-> sd.BasicInfo.CompanyName, sector |-> sd.BasicInfo.Sector,
     marketCap |-> sd.BasicInfo.MarketCap, price |-> sd.CurrentPrice.Current,
     pe |-> sd.FinancialHealth.PE, dividendYield |-> sd.FinancialHealth.DividendYield,
     headlines |-> TopTitles(news, NA)]

Call(api, arg, outcome) == [api |-> api, arg |-> arg, outcome |-> outcome]

(***************************************************************************)
(* The script run.                                                         *)
(***************************************************************************)
Init ==
    /\ ticker = NoTicker
    /\ pc = "start"
    /\ analysis_type = "Overview"
    /\ clicked = FALSE
    /\ fetch_ticker = NoTicker
    /\ info = EmptyInfo
    /\ recommendations = EmptyFrame
    /\ stock_data = NoSnapshot
    /\ errors = << >>
    /\ rendered = << >>
    /\ calls = << >>
    /\ ai_analysis = << >>
    /\ verdict = NoVerdict

\* an unconditional st.session_state.ticker = 'NVDA'
ResetTicker(t) == DefaultTicker

\* if 'ticker' not in st.session_state: st.session_state.ticker = 'NVDA'
InitialTicker(t) == IF t = NoTicker THEN DefaultTicker ELSE t

\* StockAnalysisApp.__init__, at the start of a script run
AppInit ==
    /\ pc = "start"
    /\ ticker' = InitialTicker(ticker)
    /\ pc' = "dashboard"
    /\ analysis_type' = "Overview"
    /\ clicked' = FALSE
    /\ fetch_ticker' = NoTicker
    /\ info' = EmptyInfo
    /\ recommendations' = EmptyFrame
    /\ stock_data' = NoSnapshot
    /\ errors' = << >>
    /\ rendered' = << >>
    /\ calls' = << >>
    /\ ai_analysis' = << >>
    /\ verdict' = NoVerdict

\* display_dashboard up to the call of fetch_stock_data
DisplayDashboard ==
    /\ pc = "dashboard"
    /\ \E t \in Tickers, a \in AnalysisTypes, b \in BOOLEAN :
          /\ ticker' = t
          /\ analysis_type' = a
          /\ clicked' = b
          /\ fetch_ticker' = IF b THEN t ELSE NoTicker
          /\ pc' = IF b THEN "history" ELSE "done"
    /\ UNCHANGED <<info, recommendations, stock_data, errors, rendered, calls,
                   ai_analysis, verdict>>

\* an except block that returns None without st.error
FetchFailsUnreported(message) ==
    /\ UNCHANGED errors
    /\ stock_data' = NoSnapshot
    /\ pc' = "after_fetch"

\* an except block of fetch_stock_data: one st.error, return None
FetchFails(message) ==
    /\ errors' = Append(errors, message)
    /\ stock_data' = NoSnapshot
    /\ pc' = "after_fetch"

\* stock.history(period="1y")
CallHistory ==
    /\ pc = "history"
    /\ \E raises \in BOOLEAN :
          /\ calls' = Append(calls, Call("history", fetch_ticker,
                                        IF raises THEN "raise" ELSE "ok"))
          /\ IF raises
             THEN FetchFails("Unexpected error fetching stock data")
             ELSE /\ pc' = "info"
                  /\ UNCHANGED <<errors, stock_data>>
    /\ UNCHANGED <<ticker, analysis_type, clicked, fetch_ticker, info,
                   recommendations, rendered, ai_analysis, verdict>>

\* a check of info that never rejects it
NeverFalsy(d) == FALSE

\* not info
Falsy(d) == DOMAIN d = {}

\* stock.info and the check of its value
CallInfo ==
    /\ pc = "info"
    /\ \/ \* stock.info raises
          /\ calls' = Append(calls, Call("info", fetch_ticker, "raise"))
          /\ FetchFails("Error fetching stock info")
          /\ UNCHANGED info
       \/ \E payload \in InfoPayloads \cup {EmptyInfo} :
             /\ calls' = Append(calls, Call("info", fetch_ticker,
                                           IF payload = EmptyInfo THEN "empty" ELSE "ok"))
             /\ info' = payload
             /\ IF Falsy(payload)
                THEN FetchFails("No data found for ticker")
                ELSE /\ pc' = "recs"
                     /\ UNCHANGED <<errors, stock_data>>
    /\ UNCHANGED <<ticker, analysis_type, clicked, fetch_ticker,
                   recommendations, rendered, ai_analysis, verdict>>

\* stock.recommendations, an empty frame when it raises
CallRecommendations ==
    /\ pc = "recs"
    /\ \/ /\ calls' = Append(calls, Call("recommendations", fetch_ticker, "raise"))
          /\ recommendations' = EmptyFrame
       \/ \E frame \in RecommendationFrames :
             /\ calls' = Append(calls, Call("recommendations", fetch_ticker, "ok"))
             /\ recommendations' = frame
    /\ pc' = "news"
    /\ UNCHANGED <<ticker, analysis_type, clicked, fetch_ticker, info,
                   stock_data, errors, rendered, ai_analysis, verdict>>

\* ddgs.news(...) and the construction of the returned dict
CallNews ==
    /\ pc = "news"
    /\ \/ /\ calls' = Append(calls, Call("news", NewsQuery(info, fetch_ticker), "raise"))
          /\ FetchFails("Unexpected error fetching stock data")
       \/ \E ddg_news \in NewsResults :
             /\ calls' = Append(calls, Call("news", NewsQuery(info, fetch_ticker), "ok"))
             /\ IF MarketCapRaises(info)
                THEN FetchFails("Unexpected error fetching stock data")
                ELSE /\ stock_data' = Snapshot(info, recommendations, ddg_news)
                     /\ pc' = "after_fetch"
                     /\ UNCHANGED errors
    /\ UNCHANGED <<ticker, analysis_type, clicked, fetch_ticker, info,
                   recommendations, rendered, ai_analysis, verdict>>

Section(name, sd) == [section |-> name, company |-> sd.BasicInfo.CompanyName]

\* a dispatch that asks the advisor whatever the analysis type
AlwaysAdvisor(a) == TRUE

\* the else branch of the dispatch on analysis_type
UsesAdvisor(a) == a \notin {"Overview", "Price Charts"}

\* display_dashboard after fetch_stock_data returned: the section chosen by
\* the analysis type, for AI Decision Support up to generate_gemini_analysis
Dispatch ==
    /\ pc = "after_fetch"
    /\ IF stock_data # NoSnapshot
       THEN /\ rendered' = Append(rendered, Section(analysis_type, stock_data))
            /\ pc' = IF UsesAdvisor(analysis_type) THEN "gemini" ELSE "done"
       ELSE /\ pc' = "done"
            /\ UNCHANGED rendered
    /\ UNCHANGED <<ticker, analysis_type, clicked, fetch_ticker, info,
                   recommendations, stock_data, errors, calls, ai_analysis,
                   verdict>>

\* generate_gemini_analysis
CallGemini ==
    /\ pc = "gemini"
    /\ \/ \E message \in ExceptionTexts :
             /\ calls' = Append(calls, Call("gemini", Prompt(stock_data, stock_data.News), "raise"))
             /\ ai_analysis' = ErrorPrefix \o message
       \/ \E text \in GeminiResponses :
             /\ calls' = Append(calls, Call("gemini", Prompt(stock_data, stock_data.News), "ok"))
             /\ ai_analysis' = text
    /\ pc' = "render"
    /\ UNCHANGED <<ticker, analysis_type, clicked, fetch_ticker, info,
                   recommendations, stock_data, errors, rendered, verdict>>

\* display_ai_decision_support: the formatting of the analysis
RenderVerdict ==
    /\ pc = "render"
    /\ verdict' = FormatAnalysis(ai_analysis)
    /\ pc' = "done"
    /\ UNCHANGED <<ticker, analysis_type, clicked, fetch_ticker, info,
                   recommendations, stock_data, errors, rendered, calls,
                   ai_analysis>>

\* the script ends; the next interaction reruns it with the same session state
EndRun ==
    /\ pc = "done"
    /\ pc' = "start"
    /\ UNCHANGED <<ticker, analysis_type, clicked, fetch_ticker, info,
                   recommendations, stock_data, errors, rendered, calls,
                   ai_analysis, verdict>>

Next ==
    \/ AppInit
    \/ DisplayDashboard
    \/ CallHistory
    \/ CallInfo
    \/ CallRecommendations
    \/ CallNews
    \/ Dispatch
    \/ CallGemini
    \/ RenderVerdict
    \/ EndRun

Spec == Init /\ [][Next]_vars

(***************************************************************************)
(* The formatting of the analysis alone, over every text of at most MaxLen *)
(* characters: the run is at the return of generate_gemini_analysis.       *)
(***************************************************************************)
Texts == UNION { [1..n -> Alphabet] : n \in 0..MaxLen }

SampleInfo == FullInfo(Num(123), Num(1500), 123456789)

InitVerdict ==
    /\ ticker = DefaultTicker
    /\ pc = "render"
    /\ analysis_type = "AI Decision Support"
    /\ clicked = TRUE
    /\ fetch_ticker = DefaultTicker
    /\ info = SampleInfo
    /\ recommendations = EmptyFrame
    /\ stock_data = Snapshot(SampleInfo, EmptyFrame, << >>)
    /\ errors = << >>
    /\ rendered = <<Section("AI Decision Support", stock_data)>>
    /\ calls = << >>
    /\ ai_analysis \in Texts
    /\ verdict = NoVerdict

NextVerdict == RenderVerdict

SpecVerdict == InitVerdict /\ [][NextVerdict]_vars

(***************************************************************************)
(* Observations on the run, used to state the properties.                  *)
(***************************************************************************)
Called(api) == \E i \in 1..Len(calls) : calls[i].api = api
Ended(api, outcome) ==
    \E i \in 1..Len(calls) : calls[i].api = api /\ calls[i].outcome = outcome

\* fetch_stock_data has returned to display_dashboard
Returned == clicked /\ pc \in {"after_fetch", "gemini", "render", "done"}

\* the field of the snapshot derived from a field of the info payload
SnapshotField(sd, f) ==
    CASE f = "longName"         -> sd.BasicInfo.CompanyName
      [] f = "sector"           -> sd.BasicInfo.Sector
      [] f = "industry"         -> sd.BasicInfo.Industry
      [] f = "marketCap"        -> sd.BasicInfo.MarketCap
      [] f = "currentPrice"     -> sd.CurrentPrice.Current
      [] f = "fiftyTwoWeekHigh" -> sd.CurrentPrice.High52
      [] f = "fiftyTwoWeekLow"  -> sd.CurrentPrice.Low52
      [] f = "trailingPE"       -> sd.FinancialHealth.PE
      [] f = "dividendYield"    -> sd.FinancialHealth.DividendYield
      [] f = "returnOnEquity"   -> sd.FinancialHealth.ROE

\* the recommendations lookup raised or yielded no rows
RecommendationsFailed ==
    \/ Ended("recommendations", "raise")
    \/ Ended("recommendations", "ok") /\ recommendations = EmptyFrame

\* C1: whenever the info lookup returned a non-empty payload and the
\* recommendations lookup failed (raised, or yielded no rows), the fetch
\* returns a snapshot with an empty Recommendations section and reports no
\* error.  Stated for the runs in which the news search succeeded, the
\* reading most favourable to the statement.
C1_RecommendationFailureDegrades ==
    (Returned /\ Ended("info", "ok") /\ RecommendationsFailed /\ Ended("news", "ok"))
        => /\ stock_data # NoSnapshot
           /\ stock_data.Recommendations = EmptyFrame
           /\ errors = << >>

\* C2: whenever the info lookup raised or returned an empty payload, the
\* fetch reports an error and returns no snapshot, and in that run neither
\* the news provider nor the text-generation provider is called and no
\* section is rendered.
C2_InfoFailureAborts ==
    (Ended("info", "raise") \/ Ended("info", "empty"))
        => /\ stock_data = NoSnapshot
           /\ Len(errors) = 1
           /\ errors[1] \in {"Error fetching stock info", "No data found for ticker"}
           /\ ~Called("recommendations")
           /\ ~Called("news")
           /\ ~Called("gemini")
           /\ rendered = << >>
           /\ verdict = NoVerdict
           /\ pc \in {"after_fetch", "done", "start"}

C2_Witness ==
    /\ pc = "done"
    /\ Ended("info", "empty")
    /\ Len(errors) = 1

\* C3: for every non-empty info payload with any of its fields absent, the
\* fetch returns a snapshot in which each field whose source value is absent
\* holds "N/A"; an absent field never makes the fetch fail.  Stated for the
\* runs in which the news search succeeded.
C3_AbsentFieldsBecomeNA ==
    (Returned /\ Ended("info", "ok") /\ Ended("news", "ok"))
        => /\ stock_data # NoSnapshot
           /\ \A f \in Fields \ DOMAIN info : SnapshotField(stock_data, f) = NA

\* C4: generate_gemini_analysis returns to its caller whatever the provider
\* does, with a text that contains the failure marker when the provider
\* failed; a returned text is shown as an error, whole and with no headline
\* or reasons, exactly when it contains the marker, and as a recommendation
\* exactly when it does not.
C4_MarkerDecidesRendering ==
    /\ Called("gemini") => pc \in {"render", "done", "start"}
    /\ Ended("gemini", "raise") => Contains(ai_analysis, FailureMarker)
    /\ (Called("gemini") /\ pc = "done") =>
          IF Contains(ai_analysis, FailureMarker)
          THEN /\ verdict.kind = "error"
               /\ verdict.error = ai_analysis
               /\ verdict.headline = << >>
               /\ verdict.reasons = << >>
          ELSE /\ verdict.kind = "recommendation"
               /\ verdict.error = << >>

C4_Witness ==
    /\ pc = "done"
    /\ Ended("gemini", "ok")
    /\ Contains(ai_analysis, FailureMarker)
    /\ ai_analysis[1] # FailureMarker
    /\ verdict.kind = "error"

(***************************************************************************)
(* The lines of a text, by the positions of its newlines.                  *)
(***************************************************************************)
NewlinesOf(text) == {i \in 1..Len(text) : text[i] = Newline}
LineCount(text) == Cardinality(NewlinesOf(text)) + 1
\* position of the k-th newline; 0 for k = 0, Len(text) + 1 past the last
NewlineAt(text, k) ==
    IF k = 0 THEN 0
    ELSE IF k > Cardinality(NewlinesOf(text)) THEN Len(text) + 1
    ELSE CHOOSE i \in NewlinesOf(text) :
             Cardinality({j \in NewlinesOf(text) : j < i}) = k - 1
LineAt(text, k) == SubSeq(text, NewlineAt(text, k - 1) + 1, NewlineAt(text, k) - 1)
Blank(line) == \A i \in 1..Len(line) : line[i] \in Whitespace
Trimmed(line) ==
    LET inked == {i \in 1..Len(line) : line[i] \notin Whitespace}
    IN  IF inked = {} THEN << >>
        ELSE SubSeq(line, CHOOSE i \in inked : \A j \in inked : i <= j,
                          CHOOSE i \in inked : \A j \in inked : j <= i)
NotBlank(line) == ~Blank(line)
\* the non-blank lines after line 0, in order
ReasonLines(text) ==
    SelectSeq([k \in 1..(LineCount(text) - 1) |-> LineAt(text, k + 1)], NotBlank)

\* C5 as stated: for every response shown as a recommendation, the headline
\* is line 0 and the reasons are exactly the later non-blank lines, in order
\* and with their original text.
C5_ReasonsKeepOriginalText ==
    (pc = "done" /\ ~Contains(ai_analysis, FailureMarker))
        => /\ verdict.headline = LineAt(ai_analysis, 1)
           /\ verdict.reasons = ReasonLines(ai_analysis)

\* C5, amended: for every response without the failure marker, the headline
\* is exactly line 0 and the reasons are the later non-blank lines, in
\* order, each with its surrounding whitespace removed and "- " put before
\* it; blank and whitespace-only lines give no reason.
C5_ReasonsAreStrippedBullets ==
    (pc = "done" /\ ~Contains(ai_analysis, FailureMarker))
        => /\ verdict.kind = "recommendation"
           /\ verdict.headline = LineAt(ai_analysis, 1)
           /\ Len(verdict.reasons) = Len(ReasonLines(ai_analysis))
           /\ \A j \in 1..Len(verdict.reasons) :
                 verdict.reasons[j] = <<"-", " ">> \o Trimmed(ReasonLines(ai_analysis)[j])

C5_Witness ==
    /\ pc = "done"
    /\ ai_analysis = <<"B", Newline, " ", "-", Newline>>
    /\ verdict.headline = <<"B">>
    /\ verdict.reasons = << <<"-", " ", "-">> >>

\* C6: the Recommendations section of a snapshot holds exactly the last
\* min(n, 5) of the n rows the provider returned, in their order.
C6_LastFiveRows ==
    stock_data # NoSnapshot =>
        LET shown == stock_data.Recommendations
            n == Len(recommendations)
            m == IF n < 5 THEN n ELSE 5
        IN  /\ Len(shown) = m
            /\ Len(shown) <= 5
            /\ \A i \in 1..m : shown[i] = recommendations[n - m + i]

C6_Witness ==
    /\ stock_data # NoSnapshot
    /\ Len(recommendations) = 8
    /\ [i \in 1..5 |-> stock_data.Recommendations[i].date] = <<4, 5, 6, 7, 8>>

\* C7: Dividend Yield and ROE of a snapshot are the raw value times 100 with
\* two decimals and "%" for every raw number present, and "N/A" exactly when
\* the raw value is None or absent.
C7_PercentWheneverPresent ==
    stock_data # NoSnapshot =>
        \A k \in {"dividendYield", "returnOnEquity"} :
            SnapshotField(stock_data, k) =
                IF k \in DOMAIN info /\ ~info[k].isNone
                THEN FormatPercent(info[k]) ELSE NA

\* position of the call of a provider in this run, 0 when it was not called
IndexOf(api) ==
    IF Called(api) THEN CHOOSE i \in 1..Len(calls) : calls[i].api = api ELSE 0

\* C8: in a run every provider is called at most once; the history, info and
\* recommendations lookups have all ended, in that order, before the news
\* search starts; the news search has ended before the text generation is
\* asked, which happens only in the mode AI Decision Support with a snapshot;
\* without the trigger no provider is called.
C8_OneSequentialPipeline ==
    /\ \A i, j \in 1..Len(calls) : calls[i].api = calls[j].api => i = j
    /\ Called("news") =>
          /\ IndexOf("history") = 1 /\ calls[1].outcome = "ok"
          /\ IndexOf("info") = 2 /\ calls[2].outcome = "ok"
          /\ IndexOf("recommendations") = 3
          /\ IndexOf("news") = 4
    /\ Called("gemini") =>
          /\ IndexOf("news") = 4 /\ calls[4].outcome = "ok"
          /\ IndexOf("gemini") = 5
          /\ analysis_type = "AI Decision Support"
          /\ stock_data # NoSnapshot
    /\ ~clicked => calls = << >>

C8_Witness ==
    /\ pc = "done"
    /\ Len(calls) = 5
    /\ calls[3].outcome = "raise"
    /\ calls[5].api = "gemini"

\* an exception was raised in the fetch outside the info and recommendations
\* lookups: by the history lookup, by the news search, or by the derivation
\* of the snapshot's fields
FetchRaised ==
    \/ Ended("history", "raise")
    \/ Ended("news", "raise")
    \/ Ended("news", "ok") /\ MarketCapRaises(info)

\* C9: an exception raised by the history lookup, the news search or the
\* derivation of the fields is turned into exactly one reported error; the
\* fetch returns no snapshot, the run goes on in display_dashboard, and no
\* section is rendered nor the text generation asked.
C9_ExceptionBecomesOneError ==
    /\ Len(errors) <= 1
    /\ FetchRaised =>
          /\ errors = <<"Unexpected error fetching stock data">>
          /\ stock_data = NoSnapshot
          /\ pc \in {"after_fetch", "done", "start"}
          /\ rendered = << >>
          /\ ~Called("gemini")
          /\ verdict = NoVerdict

C9_Witness ==
    /\ pc = "done"
    /\ Ended("news", "ok")
    /\ MarketCapRaises(info)
    /\ Len(errors) = 1
    /\ rendered = << >>

\* C10: the stored ticker becomes "NVDA" only at the start of a run in which
\* none is stored, is otherwise changed only by the ticker input of
\* display_dashboard, before the fetch, and by no later step of the run,
\* whether it succeeds or fails; the fetch and its lookups are given the
\* ticker stored when the trigger was read.
C10_TickerOwnedByDashboard ==
    [][ /\ pc = "start" =>
              ticker' = IF ticker = NoTicker THEN "NVDA" ELSE ticker
        /\ pc \notin {"start", "dashboard"} =>
              /\ ticker' = ticker
              /\ fetch_ticker' = fetch_ticker
        /\ (pc = "dashboard" /\ clicked') => fetch_ticker' = ticker'
        /\ \A i \in 1..Len(calls') :
              calls'[i].api \in {"history", "info", "recommendations"}
                  => calls'[i].arg = ticker'
      ]_vars

C10_Witness ==
    /\ pc = "done"
    /\ ticker = "AAPL"
    /\ fetch_ticker = "AAPL"
    /\ Ended("news", "raise")
    /\ errors # << >>

====
